---- MODULE Spec2Model ----
(***************************************************************************)
(* A model of felix-ha/dl: the generic training loop (src/training.py),    *)
(* the Transformer building blocks and decoder stacks, and the             *)
(* autoregressive sampler (src/models.py).                                 *)
(*                                                                         *)
(* Tensors are modelled by what the control flow depends on: their shapes, *)
(* the causal-mask pattern, token ids, and the order of the operations     *)
(* applied to them.  Floating-point values are abstracted to tags          *)
(* ("loss", "score", "NaN", "time", "zero", "pos").                        *)
(***************************************************************************)
EXTENDS Integers, Sequences, FiniteSets, TLC

\* ------------------------------------------------------------------ bounds
MaxEpochs == 2      \* config.epochs ranges over 0..MaxEpochs
MaxBatches == 2     \* batches a data loader yields: 0..MaxBatches
MaxEmbd == 4        \* n_embd / dim_embeddings: 1..MaxEmbd
MaxHeads == 3       \* num_heads: 0..MaxHeads
MaxCtx == 3         \* block_size / dim_context: 1..MaxCtx
MaxLayer == 2       \* n_layer: 0..MaxLayer
MaxT == 4           \* sequence length of a forward call: 1..MaxT
MaxSeed == 2        \* length of the seed sequence given to generate: 1..MaxSeed
MaxNew == 3         \* max_new_tokens: 0..MaxNew
MaxBlockArg == 3    \* the block_size argument of generate: None or 1..MaxBlockArg
VocabSize == 2      \* vocab_size; token ids are 0..VocabSize-1

\* Python's None, for an argument that is otherwise a non-negative integer.
None == -1

Min(a, b) == IF a <= b THEN a ELSE b
Max(a, b) == IF a >= b THEN a ELSE b

VARIABLES
  \* ---- the model object's mode flag (nn.Module.training)
  training,
  \* ---- train(config) / run_epoch
  t_pc,               \* position in train()/run_epoch()
  epochs,             \* config.epochs
  training_loader,    \* number of batches the training loader yields
  validation_loader,  \* None, or the number of batches it yields
  score_funcs,        \* config.score_funcs: the metric names, in dict order
  raising,            \* the metric names whose function raises on every call
  save_model,         \* config.save_model
  results,            \* the results dict: key -> list of per-epoch values
  epoch,              \* the epoch loop's counter
  prefix,             \* run_epoch's prefix argument
  batch,              \* batches consumed in the current pass
  score_i,            \* position of the score_funcs loop (1-based)
  no_grad,            \* inside "with torch.no_grad()"
  opt_steps,          \* number of optimizer.step() calls: versions of the parameters
  grads,              \* "zero" or "set": the gradient buffers
  batch_ops,          \* the operations the latest batch performed, in order
  ops_prefix,         \* the pass that batch belonged to
  train_batches,      \* number of batches consumed by training passes so far
  val_snapshot,       \* opt_steps when the current validation pass began
  x_sample,           \* whether train()'s x_sample is bound
  entry_mode,         \* model.training when train() was entered
  t_err,              \* the exception that ended train(), or "none"
  \* ---- a constructed module of src/models.py and its latest forward call
  m_pc,               \* "new", "constructed", "ctor_error", "returned", "fwd_error"
  variant,            \* the class constructed
  n_embd,             \* n_embd / config.dim_embeddings
  num_heads,          \* num_heads / n_head / config.num_heads
  head_size,          \* the head_size the heads were built with
  block_size,         \* block_size / config.dim_context
  n_layer,            \* config.n_layer
  T_in,               \* sequence length T of the forward call's input
  stages,             \* the stages the forward call applied, in order
  scores,             \* a head's T x T scores after masked_fill: "-inf" or "score"
  wei,                \* the same after softmax: "zero", "pos" or "nan"
  cat_width,          \* width of the concatenated head outputs
  m_err,              \* the exception of the construction or forward call
  \* ---- generate(model, idx, max_new_tokens, block_size)
  g_pc,               \* "start", "loop", "done", "error"
  seed,               \* the idx argument as passed
  idx,                \* the local idx: one row of token ids
  max_new_tokens,
  block_size_arg,     \* the block_size argument: None or an integer
  g_iter,             \* iterations of the loop completed
  idx_cond,           \* the sequence given to the latest model(idx_cond) call
  fwd_calls,          \* number of model(idx_cond) calls made
  g_err               \* the exception that ended generate, or "none"

trainVars == <<t_pc, epochs, training_loader, validation_loader, score_funcs,
               raising, save_model, results, epoch, prefix, batch, score_i,
               no_grad, opt_steps, grads, batch_ops, ops_prefix, train_batches,
               val_snapshot, x_sample, entry_mode, t_err>>

modelVars == <<m_pc, variant, n_embd, num_heads, head_size, block_size,
               n_layer, T_in, stages, scores, wei, cat_width, m_err>>

genVars == <<g_pc, seed, idx, max_new_tokens, block_size_arg, g_iter,
             idx_cond, fwd_calls, g_err>>

vars == <<training, trainVars, modelVars, genVars>>

\* ------------------------------------------------------- src/training.py

ScoreNames == <<"accuracy", "f1">>

\* The dicts score_funcs can be: every sub-sequence of ScoreNames.
ScoreFuncChoices ==
  { <<>>, <<ScoreNames[1]>>, <<ScoreNames[2]>>, ScoreNames }

Range(s) == { s[i] : i \in 1..Len(s) }

\* prefix + "_" + name, kept as the pair of its parts.
Key(p, name) == <<p, name>>
EpochTimeKey == <<"epoch", "time">>

\* train(), lines 40-45: the names to track.
ToTrack(val_loader, funcs) ==
  {EpochTimeKey, Key("training", "loss")}
    \cup (IF val_loader # None THEN {Key("validation", "loss")} ELSE {})
    \cup { Key("training", funcs[i]) : i \in 1..Len(funcs) }
    \cup { Key("validation", funcs[i]) : i \in 1..Len(funcs) }

\* run_epoch, lines 71-74: the loader a prefix selects.
LoaderOf(p) == IF p = "training" THEN training_loader ELSE validation_loader

\* The mode were line 54 left out: whatever the model was in.
ModelTrainSkipped(mode) == mode

\* nn.Module.train() as called at line 54: the mode it leaves the model in.
ModelTrain(mode) == TRUE

\* nn.Module.eval() as called at line 58 (and by generate).
ModelEval(mode) == FALSE

\* run_epoch, lines 83-89: the operations of one batch given model.training.
BatchOps(mode) ==
  <<"forward", "loss">> \o
    (IF mode THEN <<"backward", "step", "zero_grad">> ELSE <<>>)

\* The outcome were the try/except of lines 109-112 left out.
ScoreOutcomeUncaught(raises) ==
  IF raises THEN [kind |-> "raise", val |-> "NaN"]
            ELSE [kind |-> "append", val |-> "score"]

\* run_epoch, lines 109-112: what one scoring function's call does to the
\* results: the value appended, or the exception propagated.
ScoreOutcome(raises) ==
  IF raises THEN [kind |-> "append", val |-> "NaN"]
            ELSE [kind |-> "append", val |-> "score"]

\* np.mean(running_loss): not-a-number over an empty list.
MeanLoss(n) == IF n = 0 THEN "NaN" ELSE "loss"

\* pd.DataFrame.from_dict(results): the columns must have one length.
FrameBuildable(res) ==
  \A k1 \in DOMAIN res : \A k2 \in DOMAIN res : Len(res[k1]) = Len(res[k2])

TrainIdle ==
  /\ t_pc = "idle"
  /\ epochs = 0 /\ training_loader = 0 /\ validation_loader = None
  /\ score_funcs = <<>> /\ raising = {} /\ save_model = FALSE
  /\ results = <<>> /\ epoch = 0 /\ prefix = "" /\ batch = 0 /\ score_i = 0
  /\ no_grad = FALSE /\ opt_steps = 0 /\ grads = "zero" /\ batch_ops = <<>>
  /\ ops_prefix = "" /\ train_batches = 0 /\ val_snapshot = 0
  /\ x_sample = FALSE /\ entry_mode = FALSE /\ t_err = "none"

ModelIdle ==
  /\ m_pc = "idle" /\ variant = "" /\ n_embd = 0 /\ num_heads = 0
  /\ head_size = 0 /\ block_size = 0 /\ n_layer = 0 /\ T_in = 0
  /\ stages = <<>> /\ scores = <<>> /\ wei = <<>> /\ cat_width = 0
  /\ m_err = "none"

GenIdle ==
  /\ g_pc = "idle" /\ seed = <<>> /\ idx = <<>> /\ max_new_tokens = 0
  /\ block_size_arg = None /\ g_iter = 0 /\ idx_cond = <<>>
  /\ fwd_calls = 0 /\ g_err = "none"

\* A TrainingConfig as train() receives it; the model may be in either mode.
InitTrain ==
  /\ training \in BOOLEAN
  /\ t_pc = "start"
  /\ epochs \in 0..MaxEpochs
  /\ training_loader \in 0..MaxBatches
  /\ validation_loader \in {None} \cup (0..MaxBatches)
  /\ score_funcs \in ScoreFuncChoices
  /\ raising \in SUBSET Range(score_funcs)
  /\ save_model \in BOOLEAN
  /\ results = <<>> /\ epoch = 0 /\ prefix = "" /\ batch = 0 /\ score_i = 0
  /\ no_grad = FALSE /\ opt_steps = 0 /\ grads = "zero" /\ batch_ops = <<>>
  /\ ops_prefix = "" /\ train_batches = 0 /\ val_snapshot = 0
  /\ x_sample = FALSE /\ entry_mode = training /\ t_err = "none"
  /\ ModelIdle /\ GenIdle

Append1(res, k, v) == [res EXCEPT ![k] = Append(@, v)]

\* train(), lines 40-52.
TrainSetup ==
  /\ UNCHANGED <<modelVars, genVars>>
  /\ t_pc = "start"
  /\ results' = [k \in ToTrack(validation_loader, score_funcs) |-> <<>>]
  /\ t_pc' = "epoch"
  /\ UNCHANGED <<training, entry_mode, epochs, training_loader, validation_loader,
                 score_funcs, raising, save_model, epoch, prefix, batch,
                 score_i, no_grad, opt_steps, grads, batch_ops, ops_prefix,
                 train_batches, val_snapshot, x_sample, t_err>>

\* train(), lines 53-55: the loop head, model.train(), entry of run_epoch.
EpochBegin ==
  /\ UNCHANGED <<modelVars, genVars>>
  /\ t_pc = "epoch"
  /\ epoch < epochs
  /\ training' = ModelTrain(training)
  /\ prefix' = "training"
  /\ batch' = 0
  /\ no_grad' = FALSE
  /\ t_pc' = "batches"
  /\ UNCHANGED <<entry_mode, epochs, training_loader, validation_loader, score_funcs,
                 raising, save_model, results, epoch, score_i, opt_steps,
                 grads, batch_ops, ops_prefix, train_batches, val_snapshot,
                 x_sample, t_err>>

\* run_epoch, lines 79-99: one batch.  loss.backward() under no_grad raises.
Batch ==
  /\ UNCHANGED <<modelVars, genVars>>
  /\ t_pc = "batches"
  /\ batch < LoaderOf(prefix)
  /\ LET ops == BatchOps(training)
         steps == Cardinality({ i \in 1..Len(ops) : ops[i] = "step" })
         fails == no_grad /\ Len(ops) > 2
     IN /\ batch_ops' = IF fails THEN <<"forward", "loss">> ELSE ops
        /\ opt_steps' = IF fails THEN opt_steps ELSE opt_steps + steps
        /\ t_pc' = IF fails THEN "error" ELSE "batches"
        /\ t_err' = IF fails THEN "RuntimeError" ELSE t_err
        /\ batch' = IF fails THEN batch ELSE batch + 1
        /\ grads' = IF fails \/ Len(ops) = 0 THEN grads
                    ELSE IF ops[Len(ops)] = "zero_grad" THEN "zero"
                    ELSE IF \E i \in 1..Len(ops) : ops[i] = "backward" THEN "set"
                    ELSE grads
  /\ ops_prefix' = prefix
  /\ train_batches' = IF prefix = "training" THEN train_batches + 1
                      ELSE train_batches
  /\ UNCHANGED <<training, entry_mode, epochs, training_loader, validation_loader,
                 score_funcs, raising, save_model, results, epoch, prefix,
                 score_i, no_grad, val_snapshot, x_sample>>

\* run_epoch, lines 101-105: the loader is exhausted; the metrics follow.
PassEnd ==
  /\ UNCHANGED <<modelVars, genVars>>
  /\ t_pc = "batches"
  /\ batch = LoaderOf(prefix)
  /\ score_i' = 1
  /\ t_pc' = "score"
  /\ UNCHANGED <<training, entry_mode, epochs, training_loader, validation_loader,
                 score_funcs, raising, save_model, results, epoch, prefix,
                 batch, no_grad, opt_steps, grads, batch_ops, ops_prefix,
                 train_batches, val_snapshot, x_sample, t_err>>

\* run_epoch, lines 108-112: one iteration of the scoring loop.
ScoreStep ==
  /\ UNCHANGED <<modelVars, genVars>>
  /\ t_pc = "score"
  /\ score_i <= Len(score_funcs)
  /\ LET name == score_funcs[score_i]
         k == Key(prefix, name)
         out == ScoreOutcome(name \in raising)
     IN IF k \notin DOMAIN results
        THEN /\ t_pc' = "error" /\ t_err' = "KeyError"
             /\ UNCHANGED <<results, score_i>>
        ELSE IF out.kind = "append"
        THEN /\ results' = Append1(results, k, out.val)
             /\ score_i' = score_i + 1
             /\ UNCHANGED <<t_pc, t_err>>
        ELSE /\ t_pc' = "error" /\ t_err' = "ScoreError"
             /\ UNCHANGED <<results, score_i>>
  /\ UNCHANGED <<training, entry_mode, epochs, training_loader, validation_loader,
                 score_funcs, raising, save_model, epoch, prefix, batch,
                 no_grad, opt_steps, grads, batch_ops, ops_prefix,
                 train_batches, val_snapshot, x_sample>>

\* run_epoch, lines 114-115: the loss is recorded, then "return end-start, x"
\* reads the loop variable x, which is unbound when the loader was empty.
RecordLoss ==
  /\ UNCHANGED <<modelVars, genVars>>
  /\ t_pc = "score"
  /\ score_i > Len(score_funcs)
  /\ LET k == Key(prefix, "loss")
     IN IF k \notin DOMAIN results
        THEN /\ t_pc' = "error" /\ t_err' = "KeyError"
             /\ UNCHANGED <<results, x_sample>>
        ELSE /\ results' = Append1(results, k, MeanLoss(batch))
             /\ IF batch = 0
                THEN /\ t_pc' = "error" /\ t_err' = "UnboundLocalError"
                     /\ UNCHANGED x_sample
                ELSE /\ t_pc' = IF prefix = "training" THEN "after_training"
                                ELSE "epoch_end"
                     /\ x_sample' = IF prefix = "training" THEN TRUE ELSE x_sample
                     /\ UNCHANGED t_err
  /\ UNCHANGED <<training, entry_mode, epochs, training_loader, validation_loader,
                 score_funcs, raising, save_model, epoch, prefix, batch,
                 score_i, no_grad, opt_steps, grads, batch_ops, ops_prefix,
                 train_batches, val_snapshot>>

\* train(), lines 57-60: model.eval(), then run_epoch under torch.no_grad().
ValidationBegin ==
  /\ UNCHANGED <<modelVars, genVars>>
  /\ t_pc = "after_training"
  /\ validation_loader # None
  /\ training' = ModelEval(training)
  /\ no_grad' = TRUE
  /\ prefix' = "validation"
  /\ batch' = 0
  /\ val_snapshot' = opt_steps
  /\ t_pc' = "batches"
  /\ UNCHANGED <<entry_mode, epochs, training_loader, validation_loader, score_funcs,
                 raising, save_model, results, epoch, score_i, opt_steps,
                 grads, batch_ops, ops_prefix, train_batches, x_sample, t_err>>

\* train(), line 57 with validation_loader None.
SkipValidation ==
  /\ UNCHANGED <<modelVars, genVars>>
  /\ t_pc = "after_training"
  /\ validation_loader = None
  /\ t_pc' = "epoch_end"
  /\ UNCHANGED <<training, entry_mode, epochs, training_loader, validation_loader,
                 score_funcs, raising, save_model, results, epoch, prefix,
                 batch, score_i, no_grad, opt_steps, grads, batch_ops,
                 ops_prefix, train_batches, val_snapshot, x_sample, t_err>>

\* train(), line 62, and the step of the epoch loop.
EpochEnd ==
  /\ UNCHANGED <<modelVars, genVars>>
  /\ t_pc = "epoch_end"
  /\ results' = Append1(results, EpochTimeKey, "time")
  /\ epoch' = epoch + 1
  /\ no_grad' = FALSE
  /\ t_pc' = "epoch"
  /\ UNCHANGED <<training, entry_mode, epochs, training_loader, validation_loader,
                 score_funcs, raising, save_model, prefix, batch, score_i,
                 opt_steps, grads, batch_ops, ops_prefix, train_batches,
                 val_snapshot, x_sample, t_err>>

\* train(), lines 64-66: the epoch loop is over; the optional save and export,
\* which reads x_sample (unbound when no epoch ran).
SaveModel ==
  /\ UNCHANGED <<modelVars, genVars>>
  /\ t_pc = "epoch"
  /\ epoch >= epochs
  /\ IF save_model /\ ~x_sample
     THEN t_pc' = "error" /\ t_err' = "UnboundLocalError"
     ELSE t_pc' = "frame" /\ UNCHANGED t_err
  /\ UNCHANGED <<training, entry_mode, epochs, training_loader, validation_loader,
                 score_funcs, raising, save_model, results, epoch, prefix,
                 batch, score_i, no_grad, opt_steps, grads, batch_ops,
                 ops_prefix, train_batches, val_snapshot, x_sample>>

\* train(), line 68: pd.DataFrame.from_dict(results).
BuildFrame ==
  /\ UNCHANGED <<modelVars, genVars>>
  /\ t_pc = "frame"
  /\ IF FrameBuildable(results)
     THEN t_pc' = "done" /\ UNCHANGED t_err
     ELSE t_pc' = "error" /\ t_err' = "ValueError"
  /\ UNCHANGED <<training, entry_mode, epochs, training_loader, validation_loader,
                 score_funcs, raising, save_model, results, epoch, prefix,
                 batch, score_i, no_grad, opt_steps, grads, batch_ops,
                 ops_prefix, train_batches, val_snapshot, x_sample>>

NextTrain ==
  \/ TrainSetup \/ EpochBegin \/ Batch \/ PassEnd \/ ScoreStep \/ RecordLoss
  \/ ValidationBegin \/ SkipValidation \/ EpochEnd \/ SaveModel \/ BuildFrame

SpecTrain == InitTrain /\ [][NextTrain]_vars

\* ----------------------------------------------- claims about train()

IsValidationKey(k) == k[1] = "validation"

\* C3: with a validation loader, "training_loss" and "validation_loss" hold
\* one value per epoch in the returned table; with validation_loader None no
\* validation_* key is in the results or receives a value.
C3_ValidationKeysOnlyWithLoader ==
  /\ (t_pc = "done" /\ validation_loader # None) =>
        /\ Len(results[Key("training", "loss")]) = epochs
        /\ Len(results[Key("validation", "loss")]) = epochs
  /\ (t_pc # "start" /\ validation_loader = None) =>
        \A k \in DOMAIN results : ~IsValidationKey(k)

\* C4: when train() has run its E epochs and builds the table, every tracked
\* metric name maps to exactly E values, with and without a validation
\* loader, so building the table never fails.
C4_OneValuePerEpochPerKey ==
  /\ t_pc \in {"frame", "done"} =>
        \A k \in DOMAIN results : Len(results[k]) = epochs
  /\ t_err # "ValueError"

\* The number of values a metric's list holds while epoch number "epoch" is
\* under way: one per finished epoch, plus this epoch's once its pass has
\* scored the metric at position i of score_funcs.
PassScored(p, i) ==
  \/ t_pc = "score" /\ prefix = p /\ score_i > i
  \/ p = "training" /\ t_pc \in {"after_training", "epoch_end"}
  \/ p = "training" /\ prefix = "validation"
       /\ t_pc \in {"batches", "score"}
  \/ p = "validation" /\ t_pc = "epoch_end"

PassRuns(p) == p = "training" \/ validation_loader # None

\* C5: a scoring function that raises on every call yields a NaN entry for
\* its metric in every epoch, for each pass that is run; the failure is
\* caught per metric (the metrics after it and the loss are still recorded)
\* and never ends train(): all epochs run.
C5_ScoreFailureRecordedAsNaN ==
  /\ t_err \notin {"ScoreError", "KeyError"}
  /\ t_pc \notin {"start", "idle"} =>
       \A i \in 1..Len(score_funcs) : \A p \in {"training", "validation"} :
         LET lst == results[Key(p, score_funcs[i])]
         IN /\ \A j \in 1..Len(lst) :
                 lst[j] = IF score_funcs[i] \in raising THEN "NaN" ELSE "score"
            /\ (PassRuns(p) /\ t_pc # "error") =>
                 Len(lst) = epoch + (IF PassScored(p, i) THEN 1 ELSE 0)
  /\ t_pc = "after_training" =>
       Len(results[Key("training", "loss")]) = epoch + 1
  /\ t_pc \in {"frame", "done"} =>
       /\ epoch = epochs
       /\ Len(results[Key("training", "loss")]) = epochs
  /\ t_pc = "error" =>
       \/ t_err = "ValueError"
       \/ /\ t_err = "UnboundLocalError"
          /\ \/ training_loader = 0
             \/ validation_loader = 0
             \/ save_model /\ epochs = 0

\* C5's case: both epochs ran with a raising metric and a validation pass.
C5_Witness ==
  /\ t_pc = "done" /\ epochs = 2 /\ validation_loader # None
  /\ raising = {"accuracy"} /\ Len(score_funcs) = 2
  /\ results[Key("training", "accuracy")] = <<"NaN", "NaN">>
  /\ results[Key("validation", "accuracy")] = <<"NaN", "NaN">>
  /\ results[Key("training", "f1")] = <<"score", "score">>

\* C7: parameter updates happen exactly in the batches of the training pass:
\* every training batch runs forward, loss, backward, step, zero_grad in
\* that order whatever the mode at entry, and no validation batch runs
\* backward or step, so a validation pass leaves the parameters unchanged.
C7_UpdatesExactlyInTrainingBatches ==
  /\ opt_steps = train_batches
  /\ batch_ops # <<>> =>
       batch_ops = IF ops_prefix = "training"
                   THEN <<"forward", "loss", "backward", "step", "zero_grad">>
                   ELSE <<"forward", "loss">>
  /\ prefix = "validation" => opt_steps = val_snapshot
  /\ grads = "zero"
  /\ t_err # "RuntimeError"

\* C7's case: entered in inference mode, a training batch of the second
\* epoch (after a validation pass) has just updated the parameters.
C7_Witness ==
  /\ ~entry_mode /\ epoch = 1 /\ validation_loader = 2
  /\ prefix = "training" /\ ops_prefix = "training" /\ batch = 1
  /\ opt_steps = training_loader + 1
  /\ "step" \in Range(batch_ops)

\* --------------------------------------------------------- src/models.py

Stacks == {"simpleGPT", "GPT1", "GPT2"}
Blocks == {"Block", "BlockGPT1", "BlockGPT2"}

\* head_size = n_embd // n_head (lines 220, 235, 253), for n_head > 0.
HeadSize(embd, heads) == embd \div heads

\* The mask were torch.triu used in line 183.
TriuOnes(n) == [i \in 1..n |-> [j \in 1..n |-> IF j >= i THEN 1 ELSE 0]]

\* torch.tril(torch.ones(block_size, block_size)), line 183.
Tril(n) == [i \in 1..n |-> [j \in 1..n |-> IF j <= i THEN 1 ELSE 0]]

\* m[:T, :T] of a square matrix: Python slices clamp to the extent.
SliceTT(m, T) ==
  LET n == Min(T, Len(m)) IN [i \in 1..n |-> [j \in 1..n |-> m[i][j]]]

\* Whether a square mask of extent n broadcasts to T x T.
Broadcastable(n, T) == n = T \/ n = 1

\* wei.masked_fill(mask == 0, -inf) for a T x T wei, line 191: the mask is
\* broadcast, so a 1 x 1 mask applies its one entry everywhere.
MaskedFill(m, T) ==
  [i \in 1..T |-> [j \in 1..T |->
     LET bi == IF Len(m) = 1 THEN 1 ELSE i
         bj == IF Len(m) = 1 THEN 1 ELSE j
     IN IF m[bi][bj] = 0 THEN "-inf" ELSE "score"]]

\* F.softmax(wei, dim=-1), line 192: exp(-inf) is exactly 0; a row of
\* nothing but -inf has no defined weights.
Softmax(w) ==
  [i \in 1..Len(w) |-> [j \in 1..Len(w[i]) |->
     IF \A k \in 1..Len(w[i]) : w[i][k] = "-inf" THEN "nan"
     ELSE IF w[i][j] = "-inf" THEN "zero" ELSE "pos"]]

NoPattern == [err |-> "none", scores |-> <<>>, wei |-> <<>>, cat |-> 0]

\* Head.forward, lines 186-196, for an input of T positions.
HeadForward(hs, bsize, T) ==
  IF hs = 0
  THEN [NoPattern EXCEPT !.err = "ZeroDivisionError"]     \* k.shape[-1]**-0.5
  ELSE LET mask == SliceTT(Tril(bsize), T)
       IN IF ~Broadcastable(Len(mask), T)
          THEN [NoPattern EXCEPT !.err = "RuntimeError"]
          ELSE LET filled == MaskedFill(mask, T)
               IN [err |-> "none", scores |-> filled, wei |-> Softmax(filled),
                   cat |-> hs]

\* MultiHeadAttention.forward, lines 208-212: the heads, torch.cat of their
\* outputs along the last dimension, then the n_embd -> n_embd projection.
MHAForward(heads, hs, embd, bsize, T) ==
  IF heads = 0
  THEN [NoPattern EXCEPT !.err = "RuntimeError"]          \* torch.cat([])
  ELSE LET h == HeadForward(hs, bsize, T)
       IN IF h.err # "none" THEN h
          ELSE IF heads * hs # embd
          THEN [h EXCEPT !.err = "RuntimeError", !.cat = heads * hs]
          ELSE [h EXCEPT !.cat = heads * hs]

\* The order of a block's forward (lines 227-230, 242-247, 260-263).
BlockStages(v) ==
  IF v = "BlockGPT1"
  THEN <<"multi_head", "add", "ln1", "ffwd", "add", "ln2">>
  ELSE <<"ln1", "multi_head", "add", "ln2", "ffwd", "add">>

\* The stages of a decoder stack's forward, in order (lines 86-93, 105-112,
\* 125-132), up to the first one that raises.
StackForward(v, heads, hs, embd, bsize, layers, T) ==
  LET embed == <<"token_embedding", "position_embedding">>
      drop == IF v = "GPT2" THEN <<"drop">> ELSE <<>>
      att == MHAForward(heads, hs, embd, bsize, T)
  IN IF T > bsize                      \* position ids 0..T-1 must be < dim_context
     THEN [err |-> "IndexError", stages |-> <<"token_embedding">>,
           att |-> NoPattern]
     ELSE IF layers = 0
     THEN [err |-> "none", stages |-> embed \o <<"add">> \o drop \o <<"lm_head">>,
           att |-> NoPattern]
     ELSE IF att.err # "none"
     THEN [err |-> att.err, stages |-> embed \o <<"add">> \o drop, att |-> att]
     ELSE [err |-> "none",
           stages |-> embed \o <<"add">> \o drop
                        \o [i \in 1..layers |-> "block"] \o <<"lm_head">>,
           att |-> att]

\* A freshly constructed nn.Module is in training mode.
InitModel ==
  /\ training = TRUE
  /\ m_pc = "new" /\ variant = "" /\ n_embd = 0 /\ num_heads = 0
  /\ head_size = 0 /\ block_size = 0 /\ n_layer = 0 /\ T_in = 0
  /\ stages = <<>> /\ scores = <<>> /\ wei = <<>> /\ cat_width = 0
  /\ m_err = "none"
  /\ TrainIdle /\ GenIdle

Built(v, embd, heads, hs, bsize, layers) ==
  /\ variant' = v /\ n_embd' = embd /\ num_heads' = heads /\ head_size' = hs
  /\ block_size' = bsize /\ n_layer' = layers
  /\ UNCHANGED <<training, trainVars, genVars, T_in, stages, scores, wei,
                 cat_width>>

\* Head.__init__, lines 178-184.
ConstructHead ==
  /\ m_pc = "new"
  /\ \E hs \in 0..MaxEmbd, embd \in 1..MaxEmbd, bsize \in 1..MaxCtx :
       Built("Head", embd, 1, hs, bsize, 0)
  /\ m_pc' = "constructed" /\ UNCHANGED m_err

\* MultiHeadAttention.__init__, lines 202-206: head_size is an argument.
ConstructMHA ==
  /\ m_pc = "new"
  /\ \E heads \in 0..MaxHeads, hs \in 0..MaxEmbd, embd \in 1..MaxEmbd,
        bsize \in 1..MaxCtx :
       Built("MultiHeadAttention", embd, heads, hs, bsize, 0)
  /\ m_pc' = "constructed" /\ UNCHANGED m_err

\* Block / BlockGPT1 / BlockGPT2 __init__, lines 217-224, 233-239, 251-257:
\* n_embd // n_head is the only thing that can fail.
ConstructBlock ==
  /\ m_pc = "new"
  /\ \E v \in Blocks, embd \in 1..MaxEmbd, heads \in 0..MaxHeads,
        bsize \in 1..MaxCtx :
       IF heads = 0
       THEN /\ Built(v, embd, heads, 0, bsize, 1)
            /\ m_pc' = "ctor_error" /\ m_err' = "ZeroDivisionError"
       ELSE /\ Built(v, embd, heads, HeadSize(embd, heads), bsize, 1)
            /\ m_pc' = "constructed" /\ UNCHANGED m_err

\* simpleGPT / GPT1 / GPT2 __init__, lines 77-84, 97-103, 116-123: the
\* embedding tables, n_layer blocks, the output projection.
ConstructStack ==
  /\ m_pc = "new"
  /\ \E v \in Stacks, embd \in 1..MaxEmbd, heads \in 0..MaxHeads,
        bsize \in 1..MaxCtx, layers \in 0..MaxLayer :
       IF heads = 0 /\ layers > 0
       THEN /\ Built(v, embd, heads, 0, bsize, layers)
            /\ m_pc' = "ctor_error" /\ m_err' = "ZeroDivisionError"
       ELSE /\ Built(v, embd, heads,
                     IF heads = 0 THEN 0 ELSE HeadSize(embd, heads),
                     bsize, layers)
            /\ m_pc' = "constructed" /\ UNCHANGED m_err

Returned(T, err, st, att) ==
  /\ T_in' = T
  /\ stages' = st
  /\ scores' = att.scores /\ wei' = att.wei /\ cat_width' = att.cat
  /\ m_err' = err
  /\ m_pc' = IF err = "none" THEN "returned" ELSE "fwd_error"
  /\ UNCHANGED <<training, trainVars, genVars, variant, n_embd, num_heads,
                 head_size, block_size, n_layer>>

\* A forward call of the constructed module on an input of T positions.
Forward ==
  /\ m_pc = "constructed"
  /\ \E T \in 1..MaxT :
       IF variant = "Head"
       THEN LET r == HeadForward(head_size, block_size, T)
            IN Returned(T, r.err, <<"head">>, r)
       ELSE IF variant \in Stacks
       THEN LET r == StackForward(variant, num_heads, head_size, n_embd,
                                  block_size, n_layer, T)
            IN Returned(T, r.err, r.stages, r.att)
       ELSE LET r == MHAForward(num_heads, head_size, n_embd, block_size, T)
                st == IF variant \in Blocks /\ r.err = "none"
                      THEN BlockStages(variant) ELSE <<"multi_head">>
            IN Returned(T, r.err, st, r)

NextModel ==
  \/ ConstructHead \/ ConstructMHA \/ ConstructBlock \/ ConstructStack
  \/ Forward

SpecModel == InitModel /\ [][NextModel]_vars

\* ------------------------------------- claims about the modules' structure

HasBlocks == variant \in Blocks \/ (variant \in Stacks /\ n_layer > 0)

\* C6: constructing a model variant or block with n_embd not divisible by
\* the head count fails at construction; when it divides, the concatenated
\* head outputs have width H * (D / H) = D.
C6_IndivisibleHeadCountRejected ==
  /\ (m_pc \in {"constructed", "returned", "fwd_error"}
        /\ variant \in Blocks \cup Stacks /\ num_heads > 0)
       => n_embd % num_heads = 0
  /\ (m_pc = "returned" /\ HasBlocks /\ n_embd % num_heads = 0)
       => cat_width = n_embd

\* C8: for 1 <= T <= block_size the mask a head applies is the T x T
\* sub-block of the lower-triangular mask: entry (i, j) is -inf, and its
\* softmax weight exactly zero, if and only if j > i; the diagonal is kept.
C8_CausalMaskIsLowerTriangular ==
  (m_pc = "returned" /\ scores # <<>> /\ T_in >= 1 /\ T_in <= block_size) =>
    /\ Len(scores) = T_in /\ Len(wei) = T_in
    /\ \A i \in 1..T_in :
         /\ Len(scores[i]) = T_in
         /\ \A j \in 1..T_in :
              /\ scores[i][j] = "-inf" <=> j > i
              /\ wei[i][j] = "zero" <=> j > i
         /\ wei[i][i] = "pos"

\* C8's case: a head called with T strictly inside its mask extent.
C8_Witness ==
  /\ m_pc = "returned" /\ variant = "Head"
  /\ block_size = 3 /\ T_in = 2
  /\ scores = <<<<"score", "-inf">>, <<"score", "score">>>>
  /\ wei = <<<<"pos", "zero">>, <<"pos", "pos">>>>

\* C9: a forward call with T greater than the mask extent never returns a
\* result; it ends in an error, for a standalone head and for a stack.
C9_TooLongSequenceIsFatal ==
  (m_pc \in {"returned", "fwd_error"} /\ T_in > block_size)
    => m_pc = "fwd_error"

ExpectedStages(v, layers) ==
  <<"token_embedding", "position_embedding", "add">>
    \o (IF v = "GPT2" THEN <<"drop">> ELSE <<>>)
    \o [i \in 1..layers |-> "block"]
    \o (IF v = "GPT2" THEN <<"ln_f">> ELSE <<>>)
    \o <<"lm_head">>

\* C10: a stack's forward runs embeddings summed, input dropout (GPT2 only),
\* the N blocks, a final normalization (GPT2 only), then the projection to
\* vocabulary logits.
C10_StackStageOrder ==
  (m_pc = "returned" /\ variant \in Stacks)
    => stages = ExpectedStages(variant, n_layer)

\* ------------------------------------------------ generate, lines 266-278

TokenIds == 0..(VocabSize - 1)

SeqsOfLen(n) == [1..n -> TokenIds]

\* s[start:] for a Python slice start, which may be negative (and -0 is 0).
PySliceFrom(s, start) ==
  LET n == Len(s)
      from == IF start < 0 THEN Max(n + start, 0) ELSE Min(start, n)
  IN [i \in 1..(n - from) |-> s[from + i]]

\* Lines 269-272: the sequence handed to the model.
IdxCond(s, bsize) ==
  IF bsize = None THEN s ELSE PySliceFrom(s, 0 - bsize)

\* model(idx_cond) for the model generate was given: the exception it raises,
\* or "none".  BigramLanguageModel.forward (lines 71-73) is one embedding
\* lookup and accepts any length.
ModelCall(T) ==
  IF variant = "BigramLanguageModel" THEN "none"
  ELSE StackForward(variant, num_heads, head_size, n_embd, block_size,
                    n_layer, T).err

\* generate is given a constructed language model (in either mode), a seed
\* of valid token ids that the model accepts (for a stack, no longer than
\* dim_context), a token count and, optionally, a block_size of at least one
\* token that the model supports (for a stack, at most dim_context).
InitGenerate ==
  /\ training \in BOOLEAN
  /\ m_pc = "constructed"
  /\ variant \in Stacks \cup {"BigramLanguageModel"}
  /\ n_embd \in 1..MaxEmbd
  /\ num_heads \in { h \in 1..MaxHeads : n_embd % h = 0 }
  /\ head_size = HeadSize(n_embd, num_heads)
  /\ block_size \in 1..MaxCtx
  /\ n_layer = 1
  /\ T_in = 0 /\ stages = <<>> /\ scores = <<>> /\ wei = <<>>
  /\ cat_width = 0 /\ m_err = "none"
  /\ g_pc = "start"
  /\ seed \in UNION { SeqsOfLen(n) : n \in 1..MaxSeed }
  /\ variant \in Stacks => Len(seed) <= block_size
  /\ idx = seed
  /\ max_new_tokens \in 0..MaxNew
  /\ block_size_arg \in {None} \cup (1..MaxBlockArg)
  /\ (variant \in Stacks /\ block_size_arg # None) => block_size_arg <= block_size
  /\ g_iter = 0 /\ idx_cond = <<>> /\ fwd_calls = 0 /\ g_err = "none"
  /\ TrainIdle

\* Line 267: model.eval().
GenStart ==
  /\ g_pc = "start"
  /\ training' = ModelEval(training)
  /\ g_pc' = "loop"
  /\ UNCHANGED <<trainVars, modelVars, seed, idx, max_new_tokens,
                 block_size_arg, g_iter, idx_cond, fwd_calls, g_err>>

\* Lines 268-277: one iteration: truncate, run the model, take the last
\* position's logits, sample one id, append it.
GenStep ==
  /\ g_pc = "loop"
  /\ g_iter < max_new_tokens
  /\ LET cond == IdxCond(idx, block_size_arg)
         err == ModelCall(Len(cond))
     IN /\ idx_cond' = cond
        /\ fwd_calls' = fwd_calls + 1
        /\ IF err # "none"
           THEN /\ g_pc' = "error" /\ g_err' = err
                /\ UNCHANGED <<idx, g_iter>>
           ELSE IF Len(cond) = 0                  \* logits[:, -1, :]
           THEN /\ g_pc' = "error" /\ g_err' = "IndexError"
                /\ UNCHANGED <<idx, g_iter>>
           ELSE /\ \E idx_next \in TokenIds : idx' = Append(idx, idx_next)
                /\ g_iter' = g_iter + 1
                /\ UNCHANGED <<g_pc, g_err>>
  /\ UNCHANGED <<training, trainVars, modelVars, seed, max_new_tokens,
                 block_size_arg>>

\* Line 278: return idx.
GenReturn ==
  /\ g_pc = "loop"
  /\ g_iter >= max_new_tokens
  /\ g_pc' = "done"
  /\ UNCHANGED <<training, trainVars, modelVars, seed, idx, max_new_tokens,
                 block_size_arg, g_iter, idx_cond, fwd_calls, g_err>>

NextGenerate == GenStart \/ GenStep \/ GenReturn

SpecGenerate == InitGenerate /\ [][NextGenerate]_vars

\* ------------------------------------------------- claims about generate

\* The context window of a call: the block_size override when given, else
\* the model's own (a bigram model has none).
HasWindow == block_size_arg # None \/ variant \in Stacks
ContextWindow == IF block_size_arg # None THEN block_size_arg ELSE block_size

\* C1: generate called with a seed of length L and any N >= 0, with or
\* without the block_size override, always returns a sequence of length
\* L + N that starts with the seed, every appended id in [0, vocab_size).
C1_GenerateReturnsSeedPlusN ==
  /\ g_pc # "error"
  /\ g_pc = "done" =>
       /\ Len(idx) = Len(seed) + max_new_tokens
       /\ \A i \in 1..Len(seed) : idx[i] = seed[i]
       /\ \A i \in (Len(seed) + 1)..Len(idx) : idx[i] \in TokenIds

\* C2: in every iteration the sequence passed to the model is the current
\* sequence cut to its most recent context-window tokens, so no forward
\* call receives more than context_window tokens.
C2_ForwardInputWithinWindow ==
  (fwd_calls > 0 /\ HasWindow) => Len(idx_cond) <= ContextWindow

\* ---------------------------------------------------- the whole program

Init == InitTrain \/ InitModel \/ InitGenerate

Next == NextTrain \/ NextModel \/ NextGenerate

Spec == Init /\ [][Next]_vars

====
